---- MODULE Spec2Model ----
(***************************************************************************)
(* Model of src/app.py: the Streamlit script that polls the Hyperliquid    *)
(* public API for a watch-list of trader addresses and builds the fills    *)
(* table and the positions table.  One run of the script is one poll       *)
(* cycle; the two st.cache_data caches outlive the runs.                   *)
(*                                                                         *)
(* An uncaught exception ends the run of a Streamlit script where it is    *)
(* raised: pc = "aborted".  The clock moves between runs only: the fetches *)
(* of one run happen at the instant the run starts.  The file upload of    *)
(* the sidebar (lines 175-193) is left out; it adds entries like           *)
(* "Add trader" followed by an address edit.                               *)
(***************************************************************************)
EXTENDS Integers, Sequences, FiniteSets, TLC

(***************************************************************************)
(* Bounds of the model.                                                    *)
(***************************************************************************)
\* script runs in one behaviour: when the API may answer with any payload,
\* and when it answers with well-formed payloads only
MaxCycles == 1
MaxCacheCycles == 2
\* sidebar interactions in one behaviour
MaxEdits == 3
\* rows of st.session_state["wallet_entries"]
MaxEntries == 2
\* upstream API calls in one behaviour
MaxCalls == 4
\* clock steps in one behaviour, and the seconds one step takes
MaxTicks == 2
ClockStep == 15

(***************************************************************************)
(* Program constants.                                                      *)
(***************************************************************************)
\* @st.cache_data(ttl=30)
TTL == 30
\* st.sidebar.number_input("Max fills per trader", min_value=10, ...)
MinMaxFills == 10

(***************************************************************************)
(* Strings that are compared for order are sequences of code points, so    *)
(* that Python's string comparison is modelled by what it does.            *)
(***************************************************************************)
Str0xA == <<48, 120, 65>>        \* "0xA"
Str0xB == <<48, 120, 66>>        \* "0xB"
StrBTC == <<66, 84, 67>>         \* "BTC"
StrETH == <<69, 84, 72>>         \* "ETH"
StrSpace == <<32>>               \* " "
StrTrader(n) == <<84, 114, 97, 100, 101, 114, 32, 48 + n>>   \* f"Trader {n}"

\* str.strip(): drop leading and trailing whitespace
RECURSIVE LStrip(_)
LStrip(s) == IF s # << >> /\ Head(s) = 32 THEN LStrip(Tail(s)) ELSE s
RECURSIVE RStrip(_)
RStrip(s) ==
  IF s # << >> /\ s[Len(s)] = 32 THEN RStrip(SubSeq(s, 1, Len(s) - 1)) ELSE s
Strip(s) == RStrip(LStrip(s))

\* Python's < on str: lexicographic on code points, a proper prefix is smaller
RECURSIVE StrLessFrom(_, _, _)
StrLessFrom(s, t, k) ==
  IF k > Len(t) THEN FALSE
  ELSE IF k > Len(s) THEN TRUE
  ELSE IF s[k] # t[k] THEN s[k] < t[k]
  ELSE StrLessFrom(s, t, k + 1)
StrLess(s, t) == StrLessFrom(s, t, 1)

(***************************************************************************)
(* JSON values of the API payloads.  A scalar is                            *)
(*   absent : the key is missing        null : JSON null                    *)
(*   num    : a JSON number m * 10^-e   str  : a string spelling m * 10^-e  *)
(*   text   : any other string s        list : a JSON array (wrong shape)   *)
(***************************************************************************)
JAbsent == [kind |-> "absent", m |-> 0, e |-> 0, s |-> << >>]
JNull == [kind |-> "null", m |-> 0, e |-> 0, s |-> << >>]
JNum(m, e) == [kind |-> "num", m |-> m, e |-> e, s |-> << >>]
JStr(m, e) == [kind |-> "str", m |-> m, e |-> e, s |-> << >>]
JText(s) == [kind |-> "text", m |-> 0, e |-> 0, s |-> s]

\* dict.get(key): a missing key reads as None
Get(v) == IF v.kind = "absent" THEN JNull ELSE v

\* Python truthiness of a JSON value (None, 0, "" and [] are falsy)
Truthy(v) ==
  CASE v.kind \in {"absent", "null"} -> FALSE
    [] v.kind = "num" -> v.m # 0
    [] v.kind = "str" -> TRUE
    [] v.kind = "text" -> v.s # << >>
    [] OTHER -> FALSE

(***************************************************************************)
(* Floats: NaN, or the decimal m * 10^-e.                                  *)
(***************************************************************************)
NaN == [nan |-> TRUE, m |-> 0, e |-> 0]
Float(m, e) == [nan |-> FALSE, m |-> m, e |-> e]

\* x == x
NotNaN(x) == ~x.nan
\* x == 0
IsZero(x) == ~x.nan /\ x.m = 0
\* x * y on two floats that are not NaN
Mul(x, y) == Float(x.m * y.m, x.e + y.e)

\* _safe_float: float(value), NaN on any exception
_safe_float(value) ==
  IF value.kind \in {"num", "str"} THEN Float(value.m, value.e) ELSE NaN

(***************************************************************************)
(* datetime.fromtimestamp(ts_ms / 1000, tz=utc).isoformat()                *)
(***************************************************************************)
Pow10(n) == CASE n = 0 -> 1 [] n = 1 -> 10 [] n = 2 -> 100 [] OTHER -> 1000

\* microseconds since the epoch of a timestamp of ts_ms milliseconds
\* (ts_ms = m * 10^-e with 0 <= e <= 3, so the value is a whole number)
Micros(ts_ms) == ts_ms.m * Pow10(3 - ts_ms.e)

\* fromtimestamp raises OverflowError/ValueError beyond year 9999 (about
\* 2.5 * 10^14 ms); the model writes such magnitudes as m * 10^-e with e < 0
FromTimestampRaises(ts_ms) == NotNaN(ts_ms) /\ ts_ms.e < 0 /\ ts_ms.m # 0

Digit(d) == 48 + d
TwoDigits(n) == <<Digit(n \div 10), Digit(n % 10)>>
RECURSIVE Digits(_, _)
\* n written with w digits, zero padded
Digits(n, w) == IF w = 0 THEN << >> ELSE Append(Digits(n \div 10, w - 1), Digit(n % 10))

\* a format that does not pad the hour, the minute and the second
NoPad(n) == IF n < 10 THEN <<Digit(n)>> ELSE TwoDigits(n)
IsoFormatNoPad(us) ==
  LET secs == us \div 1000000
      sod == secs % 86400
  IN  (IF secs < 0 THEN <<49, 57, 54, 57, 45, 49, 50, 45, 51, 49>>
       ELSE <<49, 57, 55, 48, 45, 48, 49, 45, 48, 49>>)
      \o <<84>> \o NoPad(sod \div 3600) \o <<58>>
      \o NoPad((sod % 3600) \div 60) \o <<58>> \o NoPad(sod % 60)
      \o (IF us % 1000000 = 0 THEN << >> ELSE <<46>> \o Digits(us % 1000000, 6))
      \o <<43, 48, 48, 58, 48, 48>>
\* isoformat(): YYYY-MM-DDTHH:MM:SS[.ffffff]+00:00 ; the fraction is left out
\* when the microsecond is 0.  us is within a day of the epoch.
IsoFormat(us) ==
  LET secs == us \div 1000000
      sod == secs % 86400
  IN  (IF secs < 0 THEN <<49, 57, 54, 57, 45, 49, 50, 45, 51, 49>>   \* "1969-12-31"
       ELSE <<49, 57, 55, 48, 45, 48, 49, 45, 48, 49>>)              \* "1970-01-01"
      \o <<84>> \o TwoDigits(sod \div 3600) \o <<58>>
      \o TwoDigits((sod % 3600) \div 60) \o <<58>> \o TwoDigits(sod % 60)
      \o (IF us % 1000000 = 0 THEN << >> ELSE <<46>> \o Digits(us % 1000000, 6))
      \o <<43, 48, 48, 58, 48, 48>>

(***************************************************************************)
(* One raw fill of a userFillsByTime response and the row built from it    *)
(* (src/app.py lines 299-324).                                             *)
(***************************************************************************)
RawFill(time, timestamp, coin, px, sz) ==
  [isdict |-> TRUE, time |-> time, timestamp |-> timestamp, coin |-> coin,
   side |-> JText(<<66>>), dir |-> JAbsent, px |-> px, sz |-> sz,
   closedPnl |-> JStr(0, 0), fee |-> JStr(1, 1), liquidation |-> JAbsent]
\* an array element that is not an object (a JSON null)
NotAFill == [RawFill(JAbsent, JAbsent, JAbsent, JAbsent, JAbsent) EXCEPT !.isdict = FALSE]

\* ts = fill.get("time") or fill.get("timestamp")
FillTs(fill) == IF Truthy(Get(fill.time)) THEN Get(fill.time) ELSE Get(fill.timestamp)
\* ts_ms = _safe_float(ts) if ts is not None else float("nan")
FillTsMs(fill) == IF FillTs(fill).kind # "null" THEN _safe_float(FillTs(fill)) ELSE NaN

\* the statements of the loop body that can raise: fill.get on a non-dict,
\* datetime.fromtimestamp on an out-of-range value
FillRowRaises(fill) == ~fill.isdict \/ FromTimestampRaises(FillTsMs(fill))

\* a product that tests px only
NotionalPxOnly(px, sz) == IF NotNaN(px) THEN Mul(px, sz) ELSE NaN
\* px * sz if px == px and sz == sz else float("nan")
Notional(px, sz) == IF NotNaN(px) /\ NotNaN(sz) THEN Mul(px, sz) ELSE NaN

\* the dict appended to fills_rows; src and k (the watch-list position and the
\* position in the raw list the row was built from) are history fields
FillRow(fill, label, addr, src, k) ==
  LET ts_ms == FillTsMs(fill)
      px == _safe_float(Get(fill.px))
      sz == _safe_float(Get(fill.sz))
  IN  [time |-> IF NotNaN(ts_ms) THEN IsoFormat(Micros(ts_ms)) ELSE << >>,
       label |-> label,
       trader |-> addr,
       coin |-> Get(fill.coin),
       side |-> Get(fill.side),
       dir |-> Get(fill.dir),
       price |-> px,
       size |-> sz,
       notional |-> Notional(px, sz),
       closed_pnl |-> _safe_float(Get(fill.closedPnl)),
       fee |-> _safe_float(Get(fill.fee)),
       liquidation |-> Get(fill.liquidation),
       src |-> src, k |-> k]

(***************************************************************************)
(* One element of assetPositions of a clearinghouseState response and the  *)
(* row built from it (src/app.py lines 346-367).                           *)
(***************************************************************************)
Leverage(type, value) == [kind |-> "obj", type |-> type, value |-> value]
LeverageAbsent == [kind |-> "absent", type |-> JAbsent, value |-> JAbsent]
LeverageNull == [kind |-> "null", type |-> JAbsent, value |-> JAbsent]

Position(coin, szi, entryPx, leverage) ==
  [kind |-> "obj", coin |-> coin, szi |-> szi, entryPx |-> entryPx,
   positionValue |-> JStr(30, 0), unrealizedPnl |-> JStr(-5, 1),
   returnOnEquity |-> JAbsent, liquidationPx |-> JNull,
   marginUsed |-> JStr(6, 0), leverage |-> leverage]
\* the key "position" is missing: ap.get("position", {}) is the empty dict
PositionAbsent ==
  [kind |-> "absent", coin |-> JAbsent, szi |-> JAbsent, entryPx |-> JAbsent,
   positionValue |-> JAbsent, unrealizedPnl |-> JAbsent,
   returnOnEquity |-> JAbsent, liquidationPx |-> JAbsent,
   marginUsed |-> JAbsent, leverage |-> LeverageAbsent]
\* "position": null : ap.get("position", {}) is None
PositionNull == [PositionAbsent EXCEPT !.kind = "null"]

AssetPosition(position) == [isdict |-> TRUE, position |-> position]

\* the statements of the loop body that run before the szi == 0 test and can
\* raise: ap.get on a non-dict, pos.get("szi") on None
SziRaises(ap) == ~ap.isdict \/ ap.position.kind = "null"
\* szi = _safe_float(pos.get("szi"))
Szi(ap) == _safe_float(Get(ap.position.szi))
\* a test that also skips a szi that is NaN
SkippedOrNaN(ap) == Szi(ap).nan \/ IsZero(Szi(ap))
\* if szi == 0: continue
Skipped(ap) == IsZero(Szi(ap))
\* building the row raises: pos.get("leverage", {}).get(...) on None
PositionRowRaises(ap) == ap.position.leverage.kind = "null"

PositionRow(ap, label, addr, src, k) ==
  LET pos == ap.position
  IN  [label |-> label,
       trader |-> addr,
       coin |-> Get(pos.coin),
       size |-> Szi(ap),
       entry_px |-> _safe_float(Get(pos.entryPx)),
       position_value |-> _safe_float(Get(pos.positionValue)),
       unrealized_pnl |-> _safe_float(Get(pos.unrealizedPnl)),
       return_on_equity |-> _safe_float(Get(pos.returnOnEquity)),
       liquidation_px |-> _safe_float(Get(pos.liquidationPx)),
       margin_used |-> _safe_float(Get(pos.marginUsed)),
       leverage_type |-> Get(pos.leverage.type),
       leverage_value |-> _safe_float(Get(pos.leverage.value)),
       src |-> src, k |-> k]

(***************************************************************************)
(* The responses the upstream API can give.  A fetch either raises or      *)
(* returns one of these payloads; the caches hold the payload's number.    *)
(***************************************************************************)
GoodFill(ms) == RawFill(JNum(ms, 0), JAbsent, JText(StrBTC), JStr(1005, 1), JStr(2, 0))
\* eleven fills, oldest first, one per second; the third has a non-numeric
\* px and the fifth has no time
LongFills ==
  [k \in 1..(MinMaxFills + 1) |->
     CASE k = 3 -> RawFill(JNum(3000, 0), JAbsent, JText(StrETH), JText(StrETH), JStr(2, 0))
       [] k = 5 -> RawFill(JNull, JAbsent, JText(StrETH), JStr(4, 0), JStr(2, 0))
       [] OTHER -> GoodFill(1000 * k)]

FillsPayloads ==
  << \* 1: JSON null
     [kind |-> "null", items |-> << >>],
     \* 2: one well-formed fill (px "100.5", sz "2")
     [kind |-> "list", items |-> <<GoodFill(2000)>>],
     \* 3: time 0 with a timestamp; a non-numeric px; no time at all
     [kind |-> "list",
      items |-> <<RawFill(JNum(0, 0), JStr(1500, 0), JText(StrETH), JStr(3, 0), JStr(-2, 0)),
                  RawFill(JNum(2000, 0), JAbsent, JNull, JText(StrETH), JStr(2, 0)),
                  RawFill(JText(StrETH), JAbsent, JText(StrBTC), JNum(7, 0), JNull)>>],
     \* 4: more fills than any cap of MinMaxFills
     [kind |-> "list", items |-> LongFills],
     \* 5: a well-formed fill followed by one whose time is "1e20"
     [kind |-> "list",
      items |-> <<GoodFill(1000),
                  RawFill(JStr(1, -20), JAbsent, JText(StrBTC), JStr(1, 0), JStr(1, 0))>>],
     \* 6: a well-formed fill followed by an element that is not an object
     [kind |-> "list", items |-> <<GoodFill(1000), NotAFill>>] >>

PositionsPayloads ==
  << \* 1: JSON null
     [kind |-> "null", assetPositions |-> [kind |-> "absent", items |-> << >>]],
     \* 2: "assetPositions": null
     [kind |-> "obj", assetPositions |-> [kind |-> "null", items |-> << >>]],
     \* 3: one closed position (szi "0") whose leverage is null
     [kind |-> "obj",
      assetPositions |-> [kind |-> "list", items |->
        <<AssetPosition(Position(JText(StrETH), JStr(0, 0), JStr(10, 0), LeverageNull))>>]],
     \* 4: an open position, one without szi, one element without "position"
     [kind |-> "obj",
      assetPositions |-> [kind |-> "list", items |->
        <<AssetPosition(Position(JText(StrETH), JStr(15, 1), JStr(20, 0),
                                 Leverage(JText(<<99>>), JNum(5, 0)))),
          AssetPosition(Position(JText(StrBTC), JAbsent, JText(StrBTC), LeverageAbsent)),
          AssetPosition(Position(JText(StrBTC), JNum(0, 0), JNull, LeverageAbsent)),
          AssetPosition(PositionAbsent)>>]],
     \* 5: an open position followed by "position": null
     [kind |-> "obj",
      assetPositions |-> [kind |-> "list", items |->
        <<AssetPosition(Position(JText(StrBTC), JStr(-2, 0), JStr(10, 0), LeverageAbsent)),
          AssetPosition(PositionNull)>>]],
     \* 6: an open position whose leverage is null
     [kind |-> "obj",
      assetPositions |-> [kind |-> "list", items |->
        <<AssetPosition(Position(JText(StrETH), JStr(3, 0), JStr(10, 0), LeverageNull))>>]] >>

FillsIds == 1..Len(FillsPayloads)
PositionsIds == 1..Len(PositionsPayloads)
WellFormedFills == {2, 3}
WellFormedPositions == {3, 4}

(***************************************************************************)
(* State.                                                                  *)
(***************************************************************************)
VARIABLES
  wallet_entries,    \* st.session_state["wallet_entries"]
  max_fills, aggregate_by_time, window_hours,   \* the sidebar inputs
  now,               \* the wall clock, in seconds
  fills_cache,       \* the st.cache_data store of fetch_recent_fills
  positions_cache,   \* the st.cache_data store of fetch_positions_single
  pc,                \* where the current script run is
  i,                 \* index of the for loop over addresses
  refresh,           \* the "Refresh now" button of this run
  start_ms, end_ms,  \* the time window of this run
  fills_rows, fills_df, fills_shown, fills_errors,
  positions_rows, positions_df, positions_shown, positions_errors,
  fills_log, positions_log,   \* history: one record per loop iteration
  epoch,             \* history: number of st.cache_data.clear() calls so far
  dropped,           \* history: keys of the live entries the last clear removed
  api_fills, api_positions,   \* the payloads the API answers with
  budget, cycles, edits, calls, ticks   \* counters that bound a behaviour

sidebar == <<wallet_entries, max_fills, aggregate_by_time, window_hours>>
run == <<pc, i, refresh, start_ms, end_ms>>
fills_out == <<fills_rows, fills_df, fills_shown, fills_errors, fills_log>>
positions_out ==
  <<positions_rows, positions_df, positions_shown, positions_errors, positions_log>>
caches == <<fills_cache, positions_cache, epoch, dropped>>
api == <<api_fills, api_positions, budget>>
vars == <<sidebar, now, caches, run, fills_out, positions_out, api, cycles, edits,
          calls, ticks>>

Min(S) == CHOOSE x \in S : \A y \in S : x <= y
Max(S) == CHOOSE x \in S : \A y \in S : x >= y

(***************************************************************************)
(* The watch-list (src/app.py lines 226-237).                              *)
(***************************************************************************)
\* one item of _parse_entries: (item.get(..) or "").strip(), label or addr
Cleaned(item) ==
  [address |-> Strip(item.address),
   label |-> IF Strip(item.label) # << >> THEN Strip(item.label)
             ELSE Strip(item.address)]
RECURSIVE _parse_entries(_)
_parse_entries(items) ==
  IF items = << >> THEN << >>
  ELSE (IF Strip(Head(items).address) # << >> THEN <<Cleaned(Head(items))>> ELSE << >>)
       \o _parse_entries(Tail(items))

entries == _parse_entries(wallet_entries)
addresses == [k \in 1..Len(entries) |-> entries[k].address]
\* labels_by_address = {e["address"]: e["label"] for e in entries}: a later
\* entry with the same address overwrites an earlier one
labels_by_address(addr) ==
  entries[Max({k \in 1..Len(entries) : entries[k].address = addr})].label

(***************************************************************************)
(* st.cache_data(ttl=30): an entry is served while the clock is before its *)
(* expiry; a store drops every expired entry; an exception stores nothing. *)
(***************************************************************************)
\* an entry that is still served at the second it expires
LiveAtExpiry(cache, key) == {c \in cache : c.key = key /\ now <= c.expires}
Live(cache, key) == {c \in cache : c.key = key /\ now < c.expires}
Store(cache, key, val) ==
  {c \in cache : c.key # key /\ now < c.expires}
    \cup {[key |-> key, val |-> val, expires |-> now + TTL, epoch |-> epoch]}
\* history: seconds since the entry of key was stored, -1 when there is none
Age(cache, key) ==
  IF \E c \in cache : c.key = key
    THEN now - ((CHOOSE c \in cache : c.key = key).expires - TTL)
    ELSE -1
\* history: the payload stored under key, 0 when there is none
Cached(cache, key) ==
  IF \E c \in cache : c.key = key
    THEN (CHOOSE c \in cache : c.key = key).val
    ELSE 0
\* a clear that leaves the store as it is
NotCleared(cache) == cache
\* st.cache_data.clear() empties the store of every cached function
Cleared(cache) == {}

\* _utc_ms
_utc_ms(t) == t * 1000

(***************************************************************************)
(* Sorting (pandas sort_values).                                           *)
(***************************************************************************)
\* fills_df.sort_values(by="time", ascending=False): r goes behind every row
\* whose time is not smaller
InsertByTimeDesc(sorted, r) ==
  LET c == Cardinality({j \in 1..Len(sorted) : ~StrLess(sorted[j].time, r.time)})
  IN  SubSeq(sorted, 1, c) \o <<r>> \o SubSeq(sorted, c + 1, Len(sorted))
RECURSIVE SortByTimeDesc(_)
SortByTimeDesc(rows) ==
  IF rows = << >> THEN << >>
  ELSE InsertByTimeDesc(SortByTimeDesc(SubSeq(rows, 1, Len(rows) - 1)), rows[Len(rows)])

\* the order of sort_values(by=["trader", "coin"]): a missing coin goes last
CoinLess(a, b) ==
  IF a.kind = "null" THEN FALSE
  ELSE IF b.kind = "null" THEN TRUE
  ELSE StrLess(a.s, b.s)
TraderCoinLess(a, b) ==
  \/ StrLess(a.trader, b.trader)
  \/ a.trader = b.trader /\ CoinLess(a.coin, b.coin)
InsertByTraderCoin(sorted, r) ==
  LET c == Cardinality({j \in 1..Len(sorted) : ~TraderCoinLess(r, sorted[j])})
  IN  SubSeq(sorted, 1, c) \o <<r>> \o SubSeq(sorted, c + 1, Len(sorted))
RECURSIVE SortByTraderCoin(_)
SortByTraderCoin(rows) ==
  IF rows = << >> THEN << >>
  ELSE InsertByTraderCoin(SortByTraderCoin(SubSeq(rows, 1, Len(rows) - 1)),
                          rows[Len(rows)])

Reverse(seq) == [k \in 1..Len(seq) |-> seq[Len(seq) + 1 - k]]
\* the default kind="quicksort" is not stable: rows with equal keys come out
\* in the order of the input or in another one
Unstable(rows, rev) == IF rev THEN Reverse(rows) ELSE rows

(***************************************************************************)
(* Inputs of the model.                                                    *)
(***************************************************************************)
\* what the user types into an address box: nothing, "0xA", " 0xB "
AddressInputs == {<< >>, Str0xA, StrSpace \o Str0xB \o StrSpace}
\* what the user types into a label box: nothing (the default stays otherwise)
LabelInputs == {<< >>}
\* number_input(min_value=10, value=200): the smallest cap (200 is the default)
MaxFillsInputs == {MinMaxFills}
\* slider(min_value=1, max_value=24)
WindowHoursInputs == {1, 24}

Running == pc \in {"fills", "positions"}

\* every table is rebuilt from scratch by a run
ResetTables ==
  /\ fills_rows' = << >> /\ fills_df' = << >> /\ fills_shown' = "none"
  /\ fills_errors' = << >> /\ fills_log' = << >>
  /\ positions_rows' = << >> /\ positions_df' = << >> /\ positions_shown' = "none"
  /\ positions_errors' = << >> /\ positions_log' = << >>

\* the state after the first lines of the script
Constructed ==
  /\ wallet_entries = <<[label |-> StrTrader(1), address |-> << >>]>>
  /\ max_fills = 20 * MinMaxFills /\ aggregate_by_time = FALSE /\ window_hours = 24
  /\ now = 0
  /\ fills_cache = {} /\ positions_cache = {} /\ epoch = 0 /\ dropped = {}
  /\ pc = "idle" /\ i = 0 /\ refresh = FALSE /\ start_ms = 0 /\ end_ms = 0
  /\ fills_rows = << >> /\ fills_df = << >> /\ fills_shown = "none"
  /\ fills_errors = << >> /\ fills_log = << >>
  /\ positions_rows = << >> /\ positions_df = << >> /\ positions_shown = "none"
  /\ positions_errors = << >> /\ positions_log = << >>
  /\ cycles = 0 /\ edits = 0 /\ calls = 0 /\ ticks = 0

\* the API may answer with any payload of the catalogue
Init ==
  /\ Constructed
  /\ api_fills = FillsIds /\ api_positions = PositionsIds /\ budget = MaxCycles

\* the API answers with well-formed payloads only
InitCache ==
  /\ Constructed
  /\ api_fills = WellFormedFills /\ api_positions = WellFormedPositions
  /\ budget = MaxCacheCycles

(***************************************************************************)
(* The sidebar (src/app.py lines 149-215).  An interaction reruns the      *)
(* script, which starts from empty tables; the rerun itself is StartCycle. *)
(***************************************************************************)
Interaction ==
  /\ ~Running /\ edits < MaxEdits /\ cycles < budget
  /\ edits' = edits + 1
  /\ pc' = "idle"
  /\ ResetTables
  /\ UNCHANGED <<now, caches, i, refresh, start_ms, end_ms, api, cycles, calls, ticks>>

\* st.text_input(f"Label {idx+1}")
EditLabel(idx, label) ==
  /\ idx \in 1..Len(wallet_entries)
  /\ wallet_entries[idx].label # label
  /\ wallet_entries' = [wallet_entries EXCEPT ![idx].label = label]
  /\ Interaction
  /\ UNCHANGED <<max_fills, aggregate_by_time, window_hours>>

\* st.text_input(f"Address {idx+1}")
EditAddress(idx, address) ==
  /\ idx \in 1..Len(wallet_entries)
  /\ wallet_entries[idx].address # address
  /\ wallet_entries' = [wallet_entries EXCEPT ![idx].address = address]
  /\ Interaction
  /\ UNCHANGED <<max_fills, aggregate_by_time, window_hours>>

\* st.button("Remove"): pop(idx) and st.rerun()
RemoveTrader(idx) ==
  /\ idx \in 1..Len(wallet_entries)
  /\ wallet_entries' = SubSeq(wallet_entries, 1, idx - 1)
                         \o SubSeq(wallet_entries, idx + 1, Len(wallet_entries))
  /\ Interaction
  /\ UNCHANGED <<max_fills, aggregate_by_time, window_hours>>

\* st.sidebar.button("Add trader"): append and st.rerun()
AddTrader ==
  /\ Len(wallet_entries) < MaxEntries
  /\ wallet_entries' = Append(wallet_entries,
       [label |-> StrTrader(Len(wallet_entries) + 1), address |-> << >>])
  /\ Interaction
  /\ UNCHANGED <<max_fills, aggregate_by_time, window_hours>>

\* st.sidebar.number_input("Max fills per trader")
SetMaxFills(cap) ==
  /\ max_fills # cap
  /\ max_fills' = cap
  /\ Interaction
  /\ UNCHANGED <<wallet_entries, aggregate_by_time, window_hours>>

\* st.sidebar.checkbox("Aggregate fills by time")
SetAggregate ==
  /\ aggregate_by_time' = ~aggregate_by_time
  /\ Interaction
  /\ UNCHANGED <<wallet_entries, max_fills, window_hours>>

\* st.sidebar.slider("Fill window (hours)")
SetWindowHours(hours) ==
  /\ window_hours # hours
  /\ window_hours' = hours
  /\ Interaction
  /\ UNCHANGED <<wallet_entries, max_fills, aggregate_by_time>>

(***************************************************************************)
(* One run of the script, from the top to the first fetch                  *)
(* (src/app.py lines 235-252).  It starts steps clock steps after the      *)
(* run before it; button is the "Refresh now" button.                      *)
(***************************************************************************)
StartCycle(button, steps) ==
  /\ ~Running /\ cycles < budget
  /\ ticks + steps <= MaxTicks
  /\ cycles = 0 => steps = 0
  /\ cycles' = cycles + 1
  /\ ticks' = ticks + steps
  /\ now' = now + steps * ClockStep
  /\ ResetTables
  /\ refresh' = button
  \* if refresh: st.cache_data.clear()
  /\ IF button
       THEN /\ fills_cache' = Cleared(fills_cache)
            /\ positions_cache' = Cleared(positions_cache)
            /\ epoch' = epoch + 1
            /\ dropped' = {c.key : c \in {d \in fills_cache \cup positions_cache :
                                              now' < d.expires}}
       ELSE UNCHANGED caches
  \* if not addresses: st.warning(...); st.stop()
  /\ IF addresses = << >>
       THEN /\ pc' = "stopped" /\ i' = 0
            /\ start_ms' = 0 /\ end_ms' = 0
       ELSE /\ pc' = "fills" /\ i' = 1
            /\ end_ms' = _utc_ms(now')
            /\ start_ms' = _utc_ms(now' - window_hours * 3600)
  /\ UNCHANGED <<sidebar, api, edits, calls>>

(***************************************************************************)
(* Section 1: recent fills (src/app.py lines 291-333).                     *)
(***************************************************************************)
\* fetch_recent_fills(...) or []
FillsOf(val) ==
  IF FillsPayloads[val].kind = "null" THEN << >> ELSE FillsPayloads[val].items
\* a cap that keeps the last cap entries (the most recent ones)
CutMostRecent(fills, cap) ==
  SubSeq(fills, IF Len(fills) < cap THEN 1 ELSE Len(fills) - cap + 1, Len(fills))
\* fills[: int(max_fills)]
Cut(fills, cap) == SubSeq(fills, 1, IF Len(fills) < cap THEN Len(fills) ELSE cap)

\* the rows the inner loop appends for one address before it ends or raises
FillRowsUpTo(cut, addr, src) ==
  LET bad == {k \in 1..Len(cut) : FillRowRaises(cut[k])}
      upto == IF bad = {} THEN Len(cut) ELSE Min(bad) - 1
      label == labels_by_address(addr)
  IN  [k \in 1..upto |-> FillRow(cut[k], label, addr, src, k)]
FillsRaise(cut) == \E k \in 1..Len(cut) : FillRowRaises(cut[k])

\* one iteration of "for addr in addresses" of the fills section; up is what
\* the API answers if it is called (0: the call raises).  After the last
\* address the table is sorted and shown and the positions section begins.
FillsStep(up, rev) ==
  /\ pc = "fills"
  /\ LET addr == addresses[i]
         key == <<addr, start_ms, end_ms, aggregate_by_time>>
         live == Live(fills_cache, key)
         hit == live # {}
         raised == ~hit /\ up = 0
         val == IF hit THEN (CHOOSE c \in live : TRUE).val ELSE up
         cut == IF raised THEN << >> ELSE Cut(FillsOf(val), max_fills)
         last == i = Len(addresses)
     IN  \* the parameters that play no part are pinned
         /\ IF hit THEN up = 0 ELSE up \in {0} \cup api_fills
         /\ ~last => ~rev
         /\ hit \/ calls < MaxCalls
         /\ calls' = (IF hit THEN calls ELSE calls + 1)
         /\ fills_cache' =
              IF hit \/ raised THEN fills_cache ELSE Store(fills_cache, key, val)
         /\ fills_log' = Append(fills_log,
              [addr |-> addr, key |-> key,
               had |-> \E c \in fills_cache : c.key = key,
               age |-> Age(fills_cache, key),
               cached |-> Cached(fills_cache, key),
               hit |-> hit, upstream |-> ~hit, raised |-> raised, val |-> val,
               stored |-> ~hit /\ ~raised,
               entry_epoch |-> IF hit THEN (CHOOSE c \in live : TRUE).epoch ELSE epoch,
               aborted |-> FillsRaise(cut)])
         \* st.error(f"Failed to load fills for {addr}: {exc}")
         /\ fills_errors' = IF raised THEN Append(fills_errors, addr) ELSE fills_errors
         /\ fills_rows' = fills_rows \o FillRowsUpTo(cut, addr, i)
         /\ IF FillsRaise(cut)
              THEN /\ pc' = "aborted" /\ i' = i
                   /\ fills_df' = << >> /\ fills_shown' = "none"
              ELSE IF ~last
              THEN /\ pc' = "fills" /\ i' = i + 1
                   /\ fills_df' = << >> /\ fills_shown' = "none"
              ELSE /\ pc' = "positions" /\ i' = 1
                   /\ IF fills_rows' # << >>
                        THEN /\ fills_df' = SortByTimeDesc(Unstable(fills_rows', rev))
                             /\ fills_shown' = "table"
                        ELSE /\ fills_df' = << >>
                             /\ fills_shown' = "info"
  /\ UNCHANGED <<sidebar, now, positions_cache, epoch, refresh, start_ms, end_ms,
                 positions_out, api, cycles, edits, ticks, dropped>>

(***************************************************************************)
(* Section 2: active positions (src/app.py lines 338-374).                 *)
(***************************************************************************)
\* (state or {}).get("assetPositions") or []
AssetPositionsOf(val) ==
  LET state == PositionsPayloads[val]
  IN  IF state.kind = "null" \/ state.assetPositions.kind # "list" THEN << >>
      ELSE state.assetPositions.items

\* the loop body raises at element ap
ApRaises(ap) == SziRaises(ap) \/ (~Skipped(ap) /\ PositionRowRaises(ap))
PositionsRaise(aps) == \E k \in 1..Len(aps) : ApRaises(aps[k])

RECURSIVE PositionRowsFrom(_, _, _, _)
\* the rows the inner loop appends for one address, from element k on, before
\* it ends or raises
PositionRowsFrom(aps, k, addr, src) ==
  IF k > Len(aps) \/ ApRaises(aps[k]) THEN << >>
  ELSE (IF Skipped(aps[k]) THEN << >>
        ELSE <<PositionRow(aps[k], labels_by_address(addr), addr, src, k)>>)
       \o PositionRowsFrom(aps, k + 1, addr, src)

\* one iteration of "for addr in addresses" of the positions section; after
\* the last address the table is sorted and shown and the run is done
PositionsStep(up, rev) ==
  /\ pc = "positions"
  /\ LET addr == addresses[i]
         key == <<addr>>
         live == Live(positions_cache, key)
         hit == live # {}
         raised == ~hit /\ up = 0
         val == IF hit THEN (CHOOSE c \in live : TRUE).val ELSE up
         aps == IF raised THEN << >> ELSE AssetPositionsOf(val)
         last == i = Len(addresses)
     IN  \* the parameters that play no part are pinned
         /\ IF hit THEN up = 0 ELSE up \in {0} \cup api_positions
         /\ ~last => ~rev
         /\ hit \/ calls < MaxCalls
         /\ calls' = (IF hit THEN calls ELSE calls + 1)
         /\ positions_cache' =
              IF hit \/ raised THEN positions_cache
              ELSE Store(positions_cache, key, val)
         /\ positions_log' = Append(positions_log,
              [addr |-> addr, key |-> key,
               had |-> \E c \in positions_cache : c.key = key,
               age |-> Age(positions_cache, key),
               cached |-> Cached(positions_cache, key),
               hit |-> hit, upstream |-> ~hit, raised |-> raised, val |-> val,
               stored |-> ~hit /\ ~raised,
               entry_epoch |-> IF hit THEN (CHOOSE c \in live : TRUE).epoch ELSE epoch,
               aborted |-> PositionsRaise(aps)])
         \* st.error(f"Failed to load positions for {addr}: {exc}")
         /\ positions_errors' =
              IF raised THEN Append(positions_errors, addr) ELSE positions_errors
         /\ positions_rows' = positions_rows \o PositionRowsFrom(aps, 1, addr, i)
         /\ IF PositionsRaise(aps)
              THEN /\ pc' = "aborted" /\ i' = i
                   /\ positions_df' = << >> /\ positions_shown' = "none"
              ELSE IF ~last
              THEN /\ pc' = "positions" /\ i' = i + 1
                   /\ positions_df' = << >> /\ positions_shown' = "none"
              ELSE /\ pc' = "done" /\ i' = i
                   /\ IF positions_rows' # << >>
                        THEN /\ positions_df' =
                                  SortByTraderCoin(Unstable(positions_rows', rev))
                             /\ positions_shown' = "table"
                        ELSE /\ positions_df' = << >>
                             /\ positions_shown' = "info"
  /\ UNCHANGED <<sidebar, now, fills_cache, epoch, refresh, start_ms, end_ms,
                 fills_out, api, cycles, edits, ticks, dropped>>

(***************************************************************************)
(* The specification.                                                      *)
(***************************************************************************)
Next ==
  \/ \E idx \in 1..MaxEntries, label \in LabelInputs : EditLabel(idx, label)
  \/ \E idx \in 1..MaxEntries, address \in AddressInputs : EditAddress(idx, address)
  \/ \E idx \in 1..MaxEntries : RemoveTrader(idx)
  \/ AddTrader
  \/ \E cap \in MaxFillsInputs : SetMaxFills(cap)
  \/ SetAggregate
  \/ \E hours \in WindowHoursInputs : SetWindowHours(hours)
  \/ \E button \in BOOLEAN, steps \in 0..MaxTicks : StartCycle(button, steps)
  \/ \E up \in 0..Len(FillsPayloads), rev \in BOOLEAN : FillsStep(up, rev)
  \/ \E up \in 0..Len(PositionsPayloads), rev \in BOOLEAN : PositionsStep(up, rev)

Spec == Init /\ [][Next]_vars
SpecCache == InitCache /\ [][Next]_vars

(***************************************************************************)
(* Vocabulary of the properties.                                           *)
(***************************************************************************)
Range(seq) == {seq[k] : k \in 1..Len(seq)}
\* the run is over: it reached the end of the script or an exception ended it
Ended == pc \in {"done", "aborted"}
Raised(log) == {j \in 1..Len(log) : log[j].raised}
Fetches == Range(fills_log) \cup Range(positions_log)
\* the raw fill a fills row was built from, and its time
RawOf(r) == FillsOf(fills_log[r.src].val)[r.k]
ValidTime(r) == NotNaN(FillTsMs(RawOf(r)))
TimeOf(r) == Micros(FillTsMs(RawOf(r)))
SameRows(df, rows) == Len(df) = Len(rows) /\ Range(df) = Range(rows)

(***************************************************************************)
(* C1.  Per-address failure isolation: a loop that has begun and whose run *)
(* is over has fetched every address of the watch-list, has reported       *)
(* exactly one failure per fetch that raised, and holds rows of succeeding *)
(* addresses only.                                                         *)
(***************************************************************************)
C1_FailureIsolation ==
  Ended =>
    /\ Len(fills_log) = Len(addresses)
    /\ Len(fills_errors) = Cardinality(Raised(fills_log))
    /\ \A r \in Range(fills_rows) : ~fills_log[r.src].raised
    /\ positions_log # << >> =>
         /\ Len(positions_log) = Len(addresses)
         /\ Len(positions_errors) = Cardinality(Raised(positions_log))
         /\ \A r \in Range(positions_rows) : ~positions_log[r.src].raised

(***************************************************************************)
(* C2.  TTL cache.  As claimed: a fetch whose key has an entry younger     *)
(* than 30 seconds makes no upstream call and returns the cached value; a  *)
(* fetch whose key has an expired entry makes one upstream call and        *)
(* replaces the entry.                                                     *)
(***************************************************************************)
C2_TTLCacheAsClaimed ==
  \A r \in Fetches :
    /\ (r.had /\ r.age < TTL) => (r.hit /\ ~r.upstream /\ r.val = r.cached)
    /\ (r.had /\ r.age >= TTL) => (r.upstream /\ r.stored)

(***************************************************************************)
(* C2, amended.  A fetch whose key has an entry younger than 30 seconds    *)
(* makes no upstream call and returns the cached value; a fetch whose key  *)
(* has an expired entry makes one upstream call, and replaces the entry    *)
(* exactly when that call returns (a call that raises stores nothing).     *)
(***************************************************************************)
C2_TTLCache ==
  \A r \in Fetches :
    /\ (r.had /\ r.age < TTL) => (r.hit /\ ~r.upstream /\ r.val = r.cached)
    /\ (r.had /\ r.age >= TTL) => (r.upstream /\ (r.stored <=> ~r.raised))

\* an expired entry was replaced, and another fetch of the run was a hit
C2_Witness ==
  /\ \E r \in Range(positions_log) : r.had /\ r.age >= TTL /\ r.upstream /\ r.stored
  /\ \E r \in Fetches : r.hit /\ r.age < TTL /\ r.val = r.cached

(***************************************************************************)
(* C3.  Duplicate addresses keep their own labels: every row carries the   *)
(* label of the watch-list entry that produced it.                         *)
(***************************************************************************)
C3_OwnLabels ==
  \A r \in Range(fills_rows) \cup Range(positions_rows) : r.label = entries[r.src].label

(***************************************************************************)
(* C4.  Slice-before-sort cap: once the fills table is shown, an address   *)
(* whose fetch returned a raw list of length L has exactly                 *)
(* min(L, max_fills) rows in it, built from the first min(L, max_fills)    *)
(* entries of the raw list, rows with NaN or absent fields included.       *)
(***************************************************************************)
C4_SliceBeforeSort ==
  fills_shown # "none" =>
    \A j \in 1..Len(fills_log) :
      ~fills_log[j].raised =>
        LET raw == FillsOf(fills_log[j].val)
            n == IF Len(raw) < max_fills THEN Len(raw) ELSE max_fills
            mine == {x \in 1..Len(fills_df) : fills_df[x].src = j}
        IN  /\ Cardinality(mine) = n
            /\ \A k \in 1..n : \E x \in mine :
                 fills_df[x] = FillRow(raw[k], fills_df[x].label, addresses[j], j, k)

\* a raw list longer than the cap was cut, and a row with a NaN price is shown
C4_Witness ==
  /\ fills_shown = "table"
  /\ \E j \in 1..Len(fills_log) :
       ~fills_log[j].raised /\ Len(FillsOf(fills_log[j].val)) > max_fills
  /\ \E r \in Range(fills_df) : r.price.nan

(***************************************************************************)
(* C5.  Zero-size exclusion: no positions row has size zero; of a payload  *)
(* that was processed, exactly the asset positions whose normalized szi is *)
(* not equal to zero are rows (a NaN szi is a row, a szi "0" is not); a    *)
(* state whose assetPositions is absent or null gives no rows.             *)
(***************************************************************************)
C5_ZeroSizeExclusion ==
  /\ \A r \in Range(positions_rows) \cup Range(positions_df) : ~(~r.size.nan /\ r.size.m = 0)
  /\ positions_shown = "table" => Range(positions_df) = Range(positions_rows)
  /\ \A j \in 1..Len(positions_log) :
       (~positions_log[j].raised /\ ~positions_log[j].aborted) =>
         LET state == PositionsPayloads[positions_log[j].val]
             aps == state.assetPositions
             mine == {r.k : r \in {q \in Range(positions_rows) : q.src = j}}
         IN  IF state.kind = "null" \/ aps.kind # "list" THEN mine = {}
             ELSE mine = {k \in 1..Len(aps.items) :
                            LET szi == _safe_float(Get(aps.items[k].position.szi))
                            IN  szi.nan \/ szi.m # 0}

\* a payload with a zero szi and a missing szi was processed: the table
\* shows the NaN row
C5_Witness ==
  /\ positions_shown = "table"
  /\ \E r \in Range(positions_df) : r.size.nan
  /\ \E j \in 1..Len(positions_log) :
       /\ ~positions_log[j].raised
       /\ \E ap \in Range(AssetPositionsOf(positions_log[j].val)) :
            ap.position.szi = JStr(0, 0)

(***************************************************************************)
(* C6.  Notional derivation: the notional of a fill row is NaN whenever    *)
(* its price or its size is NaN, and the product of the two otherwise.     *)
(***************************************************************************)
C6_Notional ==
  \A r \in Range(fills_rows) \cup Range(fills_df) :
    IF r.price.nan \/ r.size.nan THEN r.notional = NaN
    ELSE r.notional = Float(r.price.m * r.size.m, r.price.e + r.size.e)

\* px "100.5" and sz "2" gave 201.0; another row has a NaN size
C6_Witness ==
  /\ \E r \in Range(fills_df) :
       r.price = Float(1005, 1) /\ r.size = Float(2, 0) /\ r.notional = Float(2010, 1)
  /\ \E r \in Range(fills_df) : ~r.price.nan /\ r.size.nan /\ r.notional.nan

(***************************************************************************)
(* C7.  Normalization never aborts: building the rows of a payload that a  *)
(* fetch returned never raises, so no run is ended by an exception.        *)
(***************************************************************************)
C7_NormalizationNeverAborts ==
  /\ pc # "aborted"
  /\ \A r \in Fetches : ~r.aborted

(***************************************************************************)
(* C8.  Independent fault domains: whatever happened in the fills section, *)
(* a run that is over has attempted the positions fetch for every address  *)
(* of the watch-list.                                                      *)
(***************************************************************************)
C8_IndependentFaultDomains ==
  (Ended /\ \A j \in 1..Len(positions_log) : ~positions_log[j].aborted) =>
    Len(positions_log) = Len(addresses)

(***************************************************************************)
(* C9.  Forced refresh invalidates everything: in a run started with the   *)
(* refresh button the first fetch of every key makes an upstream call, and *)
(* no fetch ever returns an entry stored before the last clear.            *)
(***************************************************************************)
FirstOfKey(log, j) == \A k \in 1..(j - 1) : log[k].key # log[j].key \/ log[k].raised
C9_ForcedRefresh ==
  /\ \A r \in Fetches : r.hit => r.entry_epoch = epoch
  /\ refresh =>
       /\ \A j \in 1..Len(fills_log) : FirstOfKey(fills_log, j) => fills_log[j].upstream
       /\ \A j \in 1..Len(positions_log) :
            FirstOfKey(positions_log, j) => positions_log[j].upstream

\* the clear removed an entry that was still live, and its key was fetched
C9_Witness ==
  /\ refresh
  /\ \E r \in Range(positions_log) : r.key \in dropped /\ r.upstream /\ ~r.had

(***************************************************************************)
(* C10.  Authoritative final sort: a table is shown only after every       *)
(* address was fetched, it holds all the rows collected, the fills table   *)
(* is non-increasing by time with the rows without a valid time after all  *)
(* others, and the positions table is non-decreasing by (trader, coin).    *)
(***************************************************************************)
C10_FinalSort ==
  /\ fills_shown # "none" => Len(fills_log) = Len(addresses)
  /\ positions_shown # "none" => Len(positions_log) = Len(addresses)
  /\ fills_shown = "table" =>
       /\ SameRows(fills_df, fills_rows)
       /\ \A a, b \in 1..Len(fills_df) :
            a < b =>
              /\ ValidTime(fills_df[b]) => ValidTime(fills_df[a])
              /\ (ValidTime(fills_df[a]) /\ ValidTime(fills_df[b])) =>
                   TimeOf(fills_df[a]) >= TimeOf(fills_df[b])
  /\ positions_shown = "table" =>
       /\ SameRows(positions_df, positions_rows)
       /\ \A a, b \in 1..Len(positions_df) :
            a < b => ~TraderCoinLess(positions_df[b], positions_df[a])

\* the sort moved a row of the second address before a row of the first, a
\* row without a valid time is shown, and the positions table has two rows
C10_Witness ==
  /\ fills_shown = "table" /\ positions_shown = "table"
  /\ \E a, b \in 1..Len(fills_df) :
       /\ a < b /\ fills_df[a].src > fills_df[b].src
       /\ TimeOf(fills_df[a]) > 9000 * 1000 /\ ValidTime(fills_df[b])
  /\ \E r \in Range(fills_df) : ~ValidTime(r)
  /\ \E a, b \in 1..Len(positions_df) :
       a < b /\ TraderCoinLess(positions_df[a], positions_df[b])

====
